---- MODULE Spec2Model ----
(***************************************************************************)
(* A model of the Life OS auto-scheduler, src/src/lib/scheduler.ts.        *)
(*                                                                         *)
(* Instants are whole minutes counted from a Sunday 00:00 local time, so   *)
(* that Date.getDay() is (minutes \div 1440) % 7 with 0 = Sunday.  A       *)
(* "decimal hour" (getDecimalHour) is kept as the minute of the day, and   *)
(* the configuration hours are compared in minutes (17.5 h = 1050 min).    *)
(* An absent optional Date or number is None; an absent optional string    *)
(* is "" (which JavaScript treats as falsy like undefined).                *)
(*                                                                         *)
(* One run of generateSchedule is a sequence of steps: Begin, one PinTask  *)
(* per pinned task, then per floating task the dependency gate, the        *)
(* chunker and, per chunk, the iterations of the day-search loop, and at   *)
(* the end the anti-cramming audit and the final sort.                     *)
(***************************************************************************)
EXTENDS Integers, Sequences, FiniteSets, TLC

VARIABLES
  now,                \* the instant read by `new Date()` at line 334
  fixedEvents,        \* argument: sequence of FixedEvent
  tasks,              \* argument: sequence of Task
  dayEndHour,         \* argument: config.dayEndHour
  pc,                 \* position in generateSchedule
  pinnedTasks,        \* line 338
  sortedTasks,        \* line 341
  pi,                 \* index of the pinned-task loop, line 348
  ti,                 \* index of the floating-task loop, line 371
  chunks,             \* line 376
  ci,                 \* index of the chunk loop, line 379
  searchDate,         \* line 381
  allChunksScheduled, \* line 377
  scheduledBlocks,    \* line 330
  overloadedTasks,    \* line 331 (the ids of the tasks pushed)
  warnings,           \* line 332
  scheduledTaskIds,   \* line 342
  tasksPerGoalPerDay, \* line 345: <<day, goalId>> -> count
  run,                \* which invocation of generateSchedule this is
  firstResult         \* what the first invocation returned

vars == <<now, fixedEvents, tasks, dayEndHour, pc, pinnedTasks, sortedTasks,
          pi, ti, chunks, ci, searchDate, allChunksScheduled, scheduledBlocks,
          overloadedTasks, warnings, scheduledTaskIds, tasksPerGoalPerDay, run,
          firstResult>>

-----------------------------------------------------------------------------
(* Bounds of the model *)

MaxTasks == 2
MaxEvents == 2
DetMaxEvents == 1
\* The longest task handed to the chunker on its own, in minutes.
MaxSplitDuration == 300

-----------------------------------------------------------------------------
(* Program constants *)

None == -1

MinutesPerDay == 1440
DayStartHour == 8
DayEndHour == 22
FamilyTimeStartMinutes == 1050
DeepWorkStartHour == 8
DeepWorkEndHour == 12
PlanningHorizonDays == 7
MaxTasksPerGoalPerDay == 3
FridayEndHour == 17
MinGapMinutes == 30
MAX_CHUNK_SIZE == 120
EFFECTIVE_MIN_CHUNK == 60
TargetChunk == 90
DefaultSplitWindowDays == 7

Min(a, b) == IF a < b THEN a ELSE b
Max(a, b) == IF a > b THEN a ELSE b

-----------------------------------------------------------------------------
(* Utility functions, lines 108-131 *)

Day(t) == t \div MinutesPerDay
MinuteOfDay(t) == t % MinutesPerDay
GetDay(t) == Day(t) % 7

IsSundayOffByOne(t) == GetDay(t) = 6
IsSunday(t) == GetDay(t) = 0
IsFriday(t) == GetDay(t) = 5
GetDecimalHour(t) == MinuteOfDay(t)
StartOfDay(t) == Day(t) * MinutesPerDay
\* The mutant of SetTimeOnDate: one hour late.
SetTimeOnDateHourLate(t, hours) == StartOfDay(t) + (hours + 1) * 60

SetTimeOnDate(t, hours) == StartOfDay(t) + hours * 60
AddMinutes(t, m) == t + m
DiffInMinutes(start, end) == end - start
\* Math.ceil(diffMs / one day)
DaysUntilDeadline(deadline, from) ==
  ((deadline - from) + (MinutesPerDay - 1)) \div MinutesPerDay
IsDeadlineUrgent(deadline, from) ==
  LET diff == deadline - from IN diff > 0 /\ diff <= MinutesPerDay

\* generateId: `block_${Date.now()}_${Math.random()...}`; what it returns is
\* decided by the clock and the random source, not by the arguments.
IdNonces == {0, 1}

-----------------------------------------------------------------------------
(* Task splitting, lines 144-211 *)

IdealChunkSize == Min(MAX_CHUNK_SIZE, Max(EFFECTIVE_MIN_CHUNK, TargetChunk))

CeilDiv(a, b) == (a + (b - 1)) \div b

\* The mutant of ChunkDuration: every chunk gets the ideal size, the last too.
ChunkDurationFullSize(remainingDuration) == IdealChunkSize

\* Line 189.
ChunkDuration(remainingDuration) == Min(remainingDuration, IdealChunkSize)

\* One iteration of the loop at lines 188-209; st is the loop's state.
ChunkStep(task, st, i, numChunks, chunksPerDay, maxDueDateDuration) ==
  LET chunkDuration == ChunkDuration(st.remainingDuration)
      isDueDate == /\ task.deadline # None
                   /\ StartOfDay(st.currentDay) = StartOfDay(task.deadline)
      day1 == IF /\ isDueDate
                 /\ st.dueDateDuration + chunkDuration > maxDueDateDuration
                 /\ Len(st.chunks) > 0
              THEN AddMinutes(st.currentDay, -MinutesPerDay)
              ELSE st.currentDay
      adv == AddMinutes(day1, MinutesPerDay)
      day2 == IF (i + 1) % chunksPerDay = 0
              THEN IF task.deadline # None /\ adv > task.deadline
                   THEN task.deadline ELSE adv
              ELSE day1
  IN [remainingDuration |-> st.remainingDuration - chunkDuration,
      currentDay |-> day2,
      dueDateDuration |-> IF isDueDate THEN st.dueDateDuration + chunkDuration
                          ELSE st.dueDateDuration,
      chunks |-> Append(st.chunks,
                   [durationMinutes |-> chunkDuration,
                    preferredDay |-> day1,
                    chunkIndex |-> i,
                    totalChunks |-> numChunks])]

RECURSIVE ChunkLoop(_, _, _, _, _, _)
ChunkLoop(task, st, i, numChunks, chunksPerDay, maxDueDateDuration) ==
  IF i >= numChunks THEN st.chunks
  ELSE ChunkLoop(task,
                 ChunkStep(task, st, i, numChunks, chunksPerDay, maxDueDateDuration),
                 i + 1, numChunks, chunksPerDay, maxDueDateDuration)

\* The mutant of SplitTaskIntoChunks: canSplit is not consulted.
SplitIgnoringCanSplit(task, scheduleStartDate) ==
  LET preferred == IF task.parentHabitId # "" /\ task.deadline # None
                   THEN StartOfDay(task.deadline)
                   ELSE scheduleStartDate
      deadlineDate == IF task.deadline # None THEN task.deadline
                      ELSE AddMinutes(scheduleStartDate,
                                      DefaultSplitWindowDays * MinutesPerDay)
      numChunks == CeilDiv(task.durationMinutes, IdealChunkSize)
  IN IF task.durationMinutes <= 120
     THEN <<[durationMinutes |-> task.durationMinutes, preferredDay |-> preferred,
             chunkIndex |-> 0, totalChunks |-> 1]>>
     ELSE ChunkLoop(task,
                    [remainingDuration |-> task.durationMinutes,
                     currentDay |-> preferred,
                     dueDateDuration |-> 0,
                     chunks |-> <<>>],
                    0, numChunks,
                    CeilDiv(numChunks,
                            Max(1, DaysUntilDeadline(deadlineDate, scheduleStartDate))),
                    task.durationMinutes \div 2)

SplitTaskIntoChunks(task, scheduleStartDate) ==
  IF task.durationMinutes <= 120 \/ ~task.canSplit
  THEN <<[durationMinutes |-> task.durationMinutes,
          preferredDay |-> IF task.parentHabitId # "" /\ task.deadline # None
                           THEN StartOfDay(task.deadline)
                           ELSE scheduleStartDate,
          chunkIndex |-> 0,
          totalChunks |-> 1]>>
  ELSE
    LET numChunks == CeilDiv(task.durationMinutes, IdealChunkSize)
        deadlineDate == IF task.deadline # None THEN task.deadline
                        ELSE AddMinutes(scheduleStartDate,
                                        DefaultSplitWindowDays * MinutesPerDay)
        daysAvailable == Max(1, DaysUntilDeadline(deadlineDate, scheduleStartDate))
        maxDueDateDuration == task.durationMinutes \div 2
        chunksPerDay == CeilDiv(numChunks, daysAvailable)
        currentDay == IF task.parentHabitId # "" /\ task.deadline # None
                      THEN StartOfDay(task.deadline)
                      ELSE scheduleStartDate
    IN ChunkLoop(task,
                 [remainingDuration |-> task.durationMinutes,
                  currentDay |-> currentDay,
                  dueDateDuration |-> 0,
                  chunks |-> <<>>],
                 0, numChunks, chunksPerDay, maxDueDateDuration)

-----------------------------------------------------------------------------
(* Gap finding, lines 217-269 *)

\* Array.prototype.sort with (a, b) => a.start - b.start: stable, ascending.
RECURSIVE InsertByStart(_, _)
InsertByStart(s, x) ==
  IF s = <<>> THEN <<x>>
  ELSE IF s[Len(s)].start <= x.start THEN Append(s, x)
  ELSE Append(InsertByStart(SubSeq(s, 1, Len(s) - 1), x), s[Len(s)])

RECURSIVE SortByStart(_)
SortByStart(s) ==
  IF s = <<>> THEN <<>>
  ELSE InsertByStart(SortByStart(SubSeq(s, 1, Len(s) - 1)), s[Len(s)])

RECURSIVE Periods(_)
Periods(s) ==
  IF s = <<>> THEN <<>>
  ELSE <<[start |-> Head(s).start, end |-> Head(s).end]>> \o Periods(Tail(s))

\* The filters at lines 236 and 242: what starts on the local date.
StartingOn(s, date) ==
  SelectSeq(s, LAMBDA x : StartOfDay(x.start) = StartOfDay(date))

\* The mutant: the blocks already placed are not read back as busy.
BusyPeriodsEventsOnly(date, events, existingBlocks) ==
  SortByStart(Periods(StartingOn(events, date)))

\* Lines 232-247.
BusyPeriods(date, events, existingBlocks) ==
  SortByStart(Periods(StartingOn(events, date))
              \o Periods(StartingOn(existingBlocks, date)))

Slot(start, end) ==
  [start |-> start, end |-> end, durationMinutes |-> DiffInMinutes(start, end)]

\* The mutant of Sweep: the cursor does not move over a busy period that
\* starts at or before it.
RECURSIVE SweepCursorStays(_, _, _, _)
SweepCursorStays(busyPeriods, i, currentTime, gaps) ==
  IF i > Len(busyPeriods) THEN [currentTime |-> currentTime, gaps |-> gaps]
  ELSE LET busy == busyPeriods[i] IN
       IF currentTime < busy.start
       THEN SweepCursorStays(busyPeriods, i + 1, busy.end,
                             Append(gaps, Slot(currentTime, busy.start)))
       ELSE SweepCursorStays(busyPeriods, i + 1, currentTime, gaps)

\* Lines 249-260: the sweep over the busy periods from index i on.
RECURSIVE Sweep(_, _, _, _)
Sweep(busyPeriods, i, currentTime, gaps) ==
  IF i > Len(busyPeriods) THEN [currentTime |-> currentTime, gaps |-> gaps]
  ELSE LET busy == busyPeriods[i]
           found == IF currentTime < busy.start
                       /\ DiffInMinutes(currentTime, busy.start) > 0
                    THEN Append(gaps, Slot(currentTime, busy.start))
                    ELSE gaps
       IN Sweep(busyPeriods, i + 1, busy.end, found)

FindGapsInDay(date, events, existingBlocks) ==
  IF IsSunday(date) THEN <<>>
  ELSE
    LET workdayStart == SetTimeOnDate(date, DayStartHour)
        workdayEnd == IF IsFriday(date) THEN SetTimeOnDate(date, FridayEndHour)
                      ELSE SetTimeOnDate(date, dayEndHour)
        swept == Sweep(BusyPeriods(date, events, existingBlocks), 1,
                       workdayStart, <<>>)
    IN IF swept.currentTime < workdayEnd
          /\ DiffInMinutes(swept.currentTime, workdayEnd) > 0
       THEN Append(swept.gaps, Slot(swept.currentTime, workdayEnd))
       ELSE swept.gaps

IsInFamilyTime(slot) == GetDecimalHour(slot.start) >= FamilyTimeStartMinutes

IsDeepWorkSlot(slot) ==
  /\ GetDecimalHour(slot.start) >= DeepWorkStartHour * 60
  /\ GetDecimalHour(slot.start) < DeepWorkEndHour * 60

-----------------------------------------------------------------------------
(* Scoring, lines 279-322 *)

ScoreSlotForTask(slot, task) ==
  LET category == IF task.category # "" THEN task.category ELSE "Personal"
  IN 100
     + (IF category \in {"Business", "Work", "Career"} /\ IsDeepWorkSlot(slot)
        THEN 50 ELSE 0)
     + (IF task.priority_tier = "critical" THEN 40 ELSE 0)
     + (IF task.priority_tier = "core" THEN 15 ELSE 0)
     + (IF slot.durationMinutes >= task.durationMinutes THEN 25 ELSE 0)

\* calculateTaskScore times ten, so that durationMinutes / 10 stays integral;
\* the score is only ever compared.  clock is the `new Date()` that
\* daysUntilDeadline reads by default.
CalculateTaskScore(task, clock) ==
  LET tier == IF task.priority_tier = "" THEN "core" ELSE task.priority_tier
      tierScore == CASE tier = "critical" -> 3000
                     [] tier = "core" -> 1000
                     [] OTHER -> 0
      daysLeft == DaysUntilDeadline(task.deadline, clock)
      deadlineScore ==
        IF task.deadline # None
        THEN (IF daysLeft <= 0 THEN 500
              ELSE IF daysLeft <= 3 THEN 300
              ELSE IF daysLeft <= 7 THEN 100 ELSE 0) - daysLeft
        ELSE -100
  IN 10 * (tierScore + deadlineScore) - task.durationMinutes

\* The comparator of line 341, (a, b) => score(b) - score(a): stable, descending.
RECURSIVE InsertByTaskScore(_, _, _)
InsertByTaskScore(s, x, clock) ==
  IF s = <<>> THEN <<x>>
  ELSE IF CalculateTaskScore(s[Len(s)], clock) >= CalculateTaskScore(x, clock)
       THEN Append(s, x)
  ELSE Append(InsertByTaskScore(SubSeq(s, 1, Len(s) - 1), x, clock), s[Len(s)])

RECURSIVE SortByTaskScore(_, _)
SortByTaskScore(s, clock) ==
  IF s = <<>> THEN <<>>
  ELSE InsertByTaskScore(SortByTaskScore(SubSeq(s, 1, Len(s) - 1), clock),
                         s[Len(s)], clock)

\* Lines 410-412: the regular slots by descending score, stable.
RECURSIVE InsertBySlotScore(_, _, _)
InsertBySlotScore(s, x, task) ==
  IF s = <<>> THEN <<x>>
  ELSE IF ScoreSlotForTask(s[Len(s)], task) >= ScoreSlotForTask(x, task)
       THEN Append(s, x)
  ELSE Append(InsertBySlotScore(SubSeq(s, 1, Len(s) - 1), x, task), s[Len(s)])

RECURSIVE SortBySlotScore(_, _)
SortBySlotScore(s, task) ==
  IF s = <<>> THEN <<>>
  ELSE InsertBySlotScore(SortBySlotScore(SubSeq(s, 1, Len(s) - 1), task),
                         s[Len(s)], task)

-----------------------------------------------------------------------------
(* The day search of one chunk, lines 404-412 and 440-441 *)

EligibleGaps(date, events, blocks) ==
  SelectSeq(FindGapsInDay(date, events, blocks),
            LAMBDA g : g.durationMinutes >= MinGapMinutes)

RegularSlots(date, events, blocks) ==
  SelectSeq(EligibleGaps(date, events, blocks), LAMBDA g : ~IsInFamilyTime(g))

FamilyTimeSlots(date, events, blocks) ==
  SelectSeq(EligibleGaps(date, events, blocks), LAMBDA g : IsInFamilyTime(g))

\* Lines 414-415: the scored regular slots the chunk fits in, best first.
RegularFits(task, chunk, date, events, blocks) ==
  SelectSeq(SortBySlotScore(RegularSlots(date, events, blocks), task),
            LAMBDA g : g.durationMinutes >= chunk.durationMinutes)

\* The mutant of CanUseFamilyTime: the assignment test is dropped.
CanUseFamilyTimeAnyTask(task, date, events, blocks) ==
  /\ task.deadline # None
  /\ IsDeadlineUrgent(task.deadline, date)
  /\ Len(RegularSlots(date, events, blocks)) = 0

\* Line 441.
CanUseFamilyTime(task, date, events, blocks) ==
  /\ task.isAssignment
  /\ task.deadline # None
  /\ IsDeadlineUrgent(task.deadline, date)
  /\ Len(RegularSlots(date, events, blocks)) = 0

\* Lines 443-444: the family-time slots the chunk fits in, in gap order.
FamilyFits(chunk, date, events, blocks) ==
  SelectSeq(FamilyTimeSlots(date, events, blocks),
            LAMBDA g : g.durationMinutes >= chunk.durationMinutes)

\* tasksPerGoalPerDay.get(dayKey).get(goalId) || 0
GoalCount(counter, dayKey, goalId) ==
  IF \E e \in counter : e[1] = dayKey /\ e[2] = goalId
  THEN (CHOOSE e \in counter : e[1] = dayKey /\ e[2] = goalId)[3]
  ELSE 0

\* The mutant of Counted: a placement leaves the velocity tracker as it was.
NotCounted(counter, dayKey, goalId) == counter

\* tasksPerGoalPerDay.get(dayKey).set(goalId, count + 1), when there is a goal
Counted(counter, dayKey, goalId) ==
  IF goalId = "" THEN counter
  ELSE {e \in counter : ~(e[1] = dayKey /\ e[2] = goalId)}
       \cup {<<dayKey, goalId, GoalCount(counter, dayKey, goalId) + 1>>}

\* The block pushed at lines 355-366, 416-428 and 445-457 (title, tier and
\* isCompleted, which are copied from the task, are left out).
Block(id, task, start, duration, isVirtual, chunkIndex, totalChunks) ==
  [id |-> id,
   taskId |-> task.id,
   start |-> start,
   end |-> AddMinutes(start, duration),
   durationMinutes |-> duration,
   isVirtual |-> isVirtual,
   chunkIndex |-> chunkIndex,
   totalChunks |-> totalChunks]

Warning(type, taskId) == [type |-> type, taskId |-> taskId]

\* The mutant of PinnedStart: a start pinned on a Sunday moves to the Monday.
PinnedStartOffSunday(task) ==
  IF GetDay(task.scheduledStart) = 0
  THEN AddMinutes(task.scheduledStart, MinutesPerDay)
  ELSE task.scheduledStart

\* Line 350: const start = new Date(task.scheduledStart).
PinnedStart(task) == task.scheduledStart

-----------------------------------------------------------------------------
(* The inputs *)

\* day is counted from the Sunday of the epoch: 1 a Monday, 5 a Friday.
At(day, hour, minute) == day * MinutesPerDay + hour * 60 + minute

\* The instants generateSchedule is invoked at.
\* A Monday 00:00, a Friday 00:00 and a Saturday 13:00.
Nows == {At(1, 0, 0), At(5, 0, 0), At(6, 13, 0)}

Task(id, dur, tier, cat, due, goal, assignment, split, deps, habit, pin) ==
  [id |-> id, durationMinutes |-> dur, priority_tier |-> tier,
   category |-> cat, deadline |-> due, goalId |-> goal,
   isAssignment |-> assignment, canSplit |-> split,
   dependsOn |-> deps, parentHabitId |-> habit,
   scheduledStart |-> pin]

\* The tasks an invocation at instant n may be given, in argument order.
TaskPool(n) ==
  LET today == StartOfDay(n) IN
  << Task("work", 120, "critical", "Work", None, "", FALSE, FALSE, {}, "", None),
     Task("errand", 60, "", "", None, "", FALSE, FALSE, {}, "", None),
     Task("project", 240, "core", "", n + 1439, "g1", FALSE, TRUE, {}, "", None),
     Task("homework", 60, "core", "", n + 1439, "g1", TRUE, FALSE, {}, "", None),
     Task("pin1", 120, "core", "", None, "", FALSE, FALSE, {}, "",
          today + 17 * 60),
     Task("pin2", 30, "core", "", None, "g1", FALSE, FALSE, {}, "",
          today + 18 * 60),
     Task("report", 150, "core", "", None, "", FALSE, TRUE, {"pin1"}, "", None),
     Task("habit", 30, "backlog", "", today + 2 * MinutesPerDay - 1, "", FALSE,
          FALSE, {}, "h1", None) >>

Event(id, start, end) == [id |-> id, start |-> start, end |-> end]

\* The calendar occupations around the day of the invocation: a block that
\* fills the regular hours, one nested in it, one before the workday, one in
\* the evening, one that leaves the late afternoon free, one that began the
\* evening before, and one that runs past midnight.
EventPool(n) ==
  LET today == StartOfDay(n) IN
  << Event("class", today + 8 * 60, today + 17 * 60 + 30),
     Event("seminar", today + 9 * 60, today + 10 * 60),
     Event("gym", today + 6 * 60, today + 7 * 60),
     Event("dinner", today + 18 * 60, today + 18 * 60 + 30),
     Event("shift", today + 8 * 60, today + 16 * 60),
     Event("overnight", today - 60, today + 10 * 60),
     Event("late", today + 23 * 60, today + 25 * 60) >>

\* Tasks that bear on deadlines, dependencies and the planning horizon: a
\* task too long for one chunk that may not be split and waits for pin1, a
\* short assignment due at noon today, one pinned nine days ahead on the day
\* of its own deadline, a habit due nine days ahead, and three that depend on
\* another: a short splittable one on the quiz, which is sorted before it, one
\* on the homework, which is sorted after it, and one on the memo, which
\* itself depends on a pinned task.
HorizonTaskPool(n) ==
  LET today == StartOfDay(n) IN
  << Task("project", 240, "core", "", n + 1439, "g1", FALSE, TRUE, {}, "", None),
     Task("homework", 60, "core", "", n + 1439, "g1", TRUE, FALSE, {}, "", None),
     Task("pin1", 120, "core", "", None, "", FALSE, FALSE, {}, "",
          today + 17 * 60),
     Task("memo", 150, "core", "", None, "", FALSE, FALSE, {"pin1"}, "", None),
     Task("quiz", 30, "backlog", "", today + 12 * 60, "g1", TRUE, FALSE, {}, "",
          None),
     Task("pin3", 180, "core", "", today + 9 * MinutesPerDay + 1439, "", FALSE,
          TRUE, {}, "", today + 9 * MinutesPerDay + 10 * 60),
     Task("review", 30, "backlog", "", today + 9 * MinutesPerDay + 1439, "",
          FALSE, FALSE, {}, "h1", None),
     Task("notes", 60, "backlog", "", n + 1439, "", FALSE, TRUE, {"quiz"}, "",
          None),
     Task("intro", 30, "critical", "", None, "", FALSE, FALSE, {"homework"}, "",
          None),
     Task("followup", 30, "backlog", "", None, "", FALSE, FALSE, {"memo"}, "",
          None) >>

\* Occupations of the day of the invocation: the regular hours, the hours up
\* to the late afternoon, the evening up to 23:30, and one that runs past
\* midnight.
HorizonEventPool(n) ==
  LET today == StartOfDay(n) IN
  << Event("class", today + 8 * 60, today + 17 * 60 + 30),
     Event("shift", today + 8 * 60, today + 16 * 60),
     Event("evening", today + 17 * 60 + 30, today + 23 * 60 + 30),
     Event("late", today + 23 * 60, today + 25 * 60) >>

\* The values of config.dayEndHour a caller passes: the default, and the
\* whole day.
DayEndHours == {DayEndHour, 24}

RECURSIVE Pick(_, _, _)
Pick(pool, S, i) ==
  IF i > Len(pool) THEN <<>>
  ELSE (IF i \in S THEN <<pool[i]>> ELSE <<>>) \o Pick(pool, S, i + 1)

\* The sub-sequences of pool with at most max elements.
Choices(pool, max) ==
  {Pick(pool, S, 1) : S \in {T \in SUBSET (1..Len(pool)) : Cardinality(T) <= max}}

-----------------------------------------------------------------------------
(* The state before generateSchedule runs *)

Idle ==
  /\ pc = "begin"
  /\ pinnedTasks = <<>>
  /\ sortedTasks = <<>>
  /\ pi = 0
  /\ ti = 0
  /\ chunks = <<>>
  /\ ci = 0
  /\ searchDate = None
  /\ allChunksScheduled = TRUE
  /\ scheduledBlocks = <<>>
  /\ overloadedTasks = <<>>
  /\ warnings = <<>>
  /\ scheduledTaskIds = {}
  /\ tasksPerGoalPerDay = {}

Init ==
  /\ now \in Nows
  /\ tasks \in Choices(TaskPool(now), MaxTasks)
  /\ fixedEvents \in Choices(EventPool(now), MaxEvents)
  /\ dayEndHour = DayEndHour
  /\ run = 1
  /\ firstResult = <<>>
  /\ Idle

\* The same, with at most DetMaxEvents occupations.
InitDet ==
  /\ now \in Nows
  /\ tasks \in Choices(TaskPool(now), MaxTasks)
  /\ fixedEvents \in Choices(EventPool(now), DetMaxEvents)
  /\ dayEndHour = DayEndHour
  /\ run = 1
  /\ firstResult = <<>>
  /\ Idle

\* The same, with the tasks and occupations of the horizon pools and either
\* value of config.dayEndHour.
InitHorizon ==
  /\ now \in Nows
  /\ tasks \in Choices(HorizonTaskPool(now), MaxTasks)
  /\ fixedEvents \in Choices(HorizonEventPool(now), MaxEvents)
  /\ dayEndHour \in DayEndHours
  /\ run = 1
  /\ firstResult = <<>>
  /\ Idle

inputs == <<now, fixedEvents, tasks, dayEndHour>>
invocation == <<run, firstResult>>

-----------------------------------------------------------------------------
(* generateSchedule, lines 324-500 *)

planningEndDate == AddMinutes(now, PlanningHorizonDays * MinutesPerDay)

\* Where the run goes once the pinned loop is over, and once the floating
\* task at index i - 1 is over.
AfterPinned == IF Len(sortedTasks) > 0 THEN "task" ELSE "audit"
AfterTask(i) == IF i <= Len(sortedTasks) THEN "task" ELSE "audit"

\* Lines 329-345.
Begin ==
  /\ pc = "begin"
  /\ LET pinned == SelectSeq(tasks, LAMBDA t : t.scheduledStart # None)
         floating == SelectSeq(tasks, LAMBDA t : t.scheduledStart = None)
         sorted == SortByTaskScore(floating, now)
     IN /\ pinnedTasks' = pinned
        /\ sortedTasks' = sorted
        /\ pc' = IF Len(pinned) > 0 THEN "pinned"
                 ELSE IF Len(sorted) > 0 THEN "task" ELSE "audit"
  /\ pi' = 1
  /\ ti' = 1
  /\ UNCHANGED <<inputs, invocation, chunks, ci, searchDate, allChunksScheduled,
                 scheduledBlocks, overloadedTasks, warnings, scheduledTaskIds,
                 tasksPerGoalPerDay>>

\* Lines 348-368: one iteration of the pinned loop.
PinTask ==
  /\ pc = "pinned"
  /\ LET task == pinnedTasks[pi] IN
     /\ \E id \in IdNonces :
          scheduledBlocks' =
            Append(scheduledBlocks,
                   Block(id, task, PinnedStart(task), task.durationMinutes,
                         FALSE, None, None))
     /\ scheduledTaskIds' = scheduledTaskIds \cup {task.id}
  /\ pi' = pi + 1
  /\ pc' = IF pi < Len(pinnedTasks) THEN "pinned" ELSE AfterPinned
  /\ UNCHANGED <<inputs, invocation, pinnedTasks, sortedTasks, ti, chunks, ci,
                 searchDate, allChunksScheduled, overloadedTasks, warnings,
                 tasksPerGoalPerDay>>

\* The mutant of DependenciesPlaced: a dependency that is among the tasks
\* given passes, placed or not.
DependenciesKnown(task, placed) ==
  \A depId \in task.dependsOn :
    \/ depId \in placed
    \/ \E t \in 1..Len(tasks) : tasks[t].id = depId

\* Line 373, negated: no dependency is missing from scheduledTaskIds.
DependenciesPlaced(task, placed) ==
  \A depId \in task.dependsOn : depId \in placed

\* Lines 372-374: the dependency gate skips the task.
DependencySkip ==
  /\ pc = "task"
  /\ ~DependenciesPlaced(sortedTasks[ti], scheduledTaskIds)
  /\ ti' = ti + 1
  /\ pc' = AfterTask(ti + 1)
  /\ UNCHANGED <<inputs, invocation, pinnedTasks, sortedTasks, pi, chunks, ci,
                 searchDate, allChunksScheduled, scheduledBlocks,
                 overloadedTasks, warnings, scheduledTaskIds, tasksPerGoalPerDay>>

\* Lines 376-382: the task is split and the search of its first chunk starts.
SplitTask ==
  /\ pc = "task"
  /\ DependenciesPlaced(sortedTasks[ti], scheduledTaskIds)
  /\ LET cs == SplitTaskIntoChunks(sortedTasks[ti], now) IN
     /\ chunks' = cs
     /\ searchDate' = cs[1].preferredDay
  /\ ci' = 1
  /\ allChunksScheduled' = TRUE
  /\ pc' = "search"
  /\ UNCHANGED <<inputs, invocation, pinnedTasks, sortedTasks, pi, ti,
                 scheduledBlocks, overloadedTasks, warnings, scheduledTaskIds,
                 tasksPerGoalPerDay>>

\* The mutant of searchEndDate: the search may run one day longer.
searchEndDateDayLate ==
  IF sortedTasks[ti].deadline # None
  THEN AddMinutes(sortedTasks[ti].deadline, MinutesPerDay)
  ELSE AddMinutes(planningEndDate, MinutesPerDay)

\* Line 382.
searchEndDate ==
  IF sortedTasks[ti].deadline # None THEN sortedTasks[ti].deadline
  ELSE planningEndDate

dayKey == StartOfDay(searchDate)

\* Line 384 holds and neither `continue` of lines 385-402 is taken.
DayIsSearched ==
  /\ pc = "search"
  /\ searchDate <= searchEndDate
  /\ ~IsSunday(searchDate)
  /\ \/ sortedTasks[ti].goalId = ""
     \/ GoalCount(tasksPerGoalPerDay, dayKey, sortedTasks[ti].goalId)
          < MaxTasksPerGoalPerDay

\* The chunk loop moves on (line 379), or is over (line 477).
NextChunk ==
  IF ci < Len(chunks)
  THEN /\ ci' = ci + 1
       /\ searchDate' = chunks[ci + 1].preferredDay
       /\ pc' = "search"
  ELSE /\ ci' = 0
       /\ searchDate' = None
       /\ pc' = "finish"

\* Lines 384 and 474: the search window is over and the chunk is not placed.
ChunkExhausted ==
  /\ pc = "search"
  /\ searchDate > searchEndDate
  /\ allChunksScheduled' = FALSE
  /\ NextChunk
  /\ UNCHANGED <<inputs, invocation, pinnedTasks, sortedTasks, pi, ti, chunks,
                 scheduledBlocks, overloadedTasks, warnings, scheduledTaskIds,
                 tasksPerGoalPerDay>>

\* Line 385.
SkipSunday ==
  /\ pc = "search"
  /\ searchDate <= searchEndDate
  /\ IsSunday(searchDate)
  /\ searchDate' = AddMinutes(searchDate, MinutesPerDay)
  /\ UNCHANGED <<inputs, invocation, pc, pinnedTasks, sortedTasks, pi, ti,
                 chunks, ci, allChunksScheduled, scheduledBlocks,
                 overloadedTasks, warnings, scheduledTaskIds, tasksPerGoalPerDay>>

\* Lines 392-402 (the empty inner map that line 394 may create holds no count).
VelocitySkip ==
  /\ pc = "search"
  /\ searchDate <= searchEndDate
  /\ ~IsSunday(searchDate)
  /\ sortedTasks[ti].goalId # ""
  /\ GoalCount(tasksPerGoalPerDay, dayKey, sortedTasks[ti].goalId)
       >= MaxTasksPerGoalPerDay
  /\ searchDate' = AddMinutes(searchDate, MinutesPerDay)
  /\ UNCHANGED <<inputs, invocation, pc, pinnedTasks, sortedTasks, pi, ti,
                 chunks, ci, allChunksScheduled, scheduledBlocks,
                 overloadedTasks, warnings, scheduledTaskIds, tasksPerGoalPerDay>>

\* Lines 404-437: the chunk goes into the best regular slot it fits in.
PlaceRegular ==
  /\ DayIsSearched
  /\ LET task == sortedTasks[ti]
         chunk == chunks[ci]
         fits == RegularFits(task, chunk, searchDate, fixedEvents, scheduledBlocks)
     IN /\ Len(fits) > 0
        /\ \E id \in IdNonces :
             scheduledBlocks' =
               Append(scheduledBlocks,
                      Block(id, task, fits[1].start, chunk.durationMinutes,
                            DaysUntilDeadline(searchDate, now) > PlanningHorizonDays,
                            chunk.chunkIndex, chunk.totalChunks))
        /\ tasksPerGoalPerDay' = Counted(tasksPerGoalPerDay, dayKey, task.goalId)
  /\ NextChunk
  /\ UNCHANGED <<inputs, invocation, pinnedTasks, sortedTasks, pi, ti, chunks,
                 allChunksScheduled, overloadedTasks, warnings, scheduledTaskIds>>

\* Lines 440-471: the family-time fallback.
PlaceFamily ==
  /\ DayIsSearched
  /\ LET task == sortedTasks[ti]
         chunk == chunks[ci]
         fits == FamilyFits(chunk, searchDate, fixedEvents, scheduledBlocks)
     IN /\ Len(RegularFits(task, chunk, searchDate, fixedEvents, scheduledBlocks)) = 0
        /\ CanUseFamilyTime(task, searchDate, fixedEvents, scheduledBlocks)
        /\ Len(fits) > 0
        /\ \E id \in IdNonces :
             scheduledBlocks' =
               Append(scheduledBlocks,
                      Block(id, task, fits[1].start, chunk.durationMinutes,
                            FALSE, chunk.chunkIndex, chunk.totalChunks))
        /\ warnings' = Append(warnings, Warning("family_time_compromised", task.id))
        /\ tasksPerGoalPerDay' = Counted(tasksPerGoalPerDay, dayKey, task.goalId)
  /\ NextChunk
  /\ UNCHANGED <<inputs, invocation, pinnedTasks, sortedTasks, pi, ti, chunks,
                 allChunksScheduled, overloadedTasks, scheduledTaskIds>>

\* Line 472: nothing fits on this day.
AdvanceDay ==
  /\ DayIsSearched
  /\ LET task == sortedTasks[ti]
         chunk == chunks[ci]
     IN /\ Len(RegularFits(task, chunk, searchDate, fixedEvents, scheduledBlocks)) = 0
        /\ \/ ~CanUseFamilyTime(task, searchDate, fixedEvents, scheduledBlocks)
           \/ Len(FamilyFits(chunk, searchDate, fixedEvents, scheduledBlocks)) = 0
  /\ searchDate' = AddMinutes(searchDate, MinutesPerDay)
  /\ UNCHANGED <<inputs, invocation, pc, pinnedTasks, sortedTasks, pi, ti,
                 chunks, ci, allChunksScheduled, scheduledBlocks,
                 overloadedTasks, warnings, scheduledTaskIds, tasksPerGoalPerDay>>

\* Lines 477-478.
MarkScheduled ==
  /\ pc = "finish"
  /\ allChunksScheduled
  /\ scheduledTaskIds' = scheduledTaskIds \cup {sortedTasks[ti].id}
  /\ chunks' = <<>>
  /\ ti' = ti + 1
  /\ pc' = AfterTask(ti + 1)
  /\ UNCHANGED <<inputs, invocation, pinnedTasks, sortedTasks, pi, ci,
                 searchDate, allChunksScheduled, scheduledBlocks,
                 overloadedTasks, warnings, tasksPerGoalPerDay>>

\* Lines 479-482.
MarkOverloaded ==
  /\ pc = "finish"
  /\ ~allChunksScheduled
  /\ overloadedTasks' = Append(overloadedTasks, sortedTasks[ti].id)
  /\ warnings' = Append(warnings, Warning("overloaded", sortedTasks[ti].id))
  /\ chunks' = <<>>
  /\ ti' = ti + 1
  /\ pc' = AfterTask(ti + 1)
  /\ UNCHANGED <<inputs, invocation, pinnedTasks, sortedTasks, pi, ci,
                 searchDate, allChunksScheduled, scheduledBlocks,
                 scheduledTaskIds, tasksPerGoalPerDay>>

RECURSIVE SumDurations(_)
SumDurations(blocks) ==
  IF blocks = <<>> THEN 0
  ELSE Head(blocks).durationMinutes + SumDurations(Tail(blocks))

\* The mutant of Crammed: the blocks of the day before the deadline are summed.
CrammedDayBefore(task, blocks) ==
  /\ task.deadline # None
  /\ task.canSplit
  /\ LET taskBlocks == SelectSeq(blocks, LAMBDA b : b.taskId = task.id)
         dueDateBlocks ==
           SelectSeq(taskBlocks,
                     LAMBDA b : StartOfDay(b.start)
                                  = StartOfDay(task.deadline) - MinutesPerDay)
     IN SumDurations(taskBlocks) > 0
        /\ 2 * SumDurations(dueDateBlocks) > SumDurations(taskBlocks)

\* Lines 487-494: whether the audit warns about the task.
Crammed(task, blocks) ==
  /\ task.deadline # None
  /\ task.canSplit
  /\ LET taskBlocks == SelectSeq(blocks, LAMBDA b : b.taskId = task.id)
         dueDateBlocks ==
           SelectSeq(taskBlocks,
                     LAMBDA b : StartOfDay(b.start) = StartOfDay(task.deadline))
         total == SumDurations(taskBlocks)
         due == SumDurations(dueDateBlocks)
     IN total > 0 /\ 2 * due > total

RECURSIVE AuditWarnings(_, _)
AuditWarnings(ts, blocks) ==
  IF ts = <<>> THEN <<>>
  ELSE (IF Crammed(Head(ts), blocks)
        THEN <<Warning("anti_cramming_violated", Head(ts).id)>> ELSE <<>>)
       \o AuditWarnings(Tail(ts), blocks)

\* Lines 486-496.
AntiCrammingAudit ==
  /\ pc = "audit"
  /\ warnings' = warnings \o AuditWarnings(sortedTasks, scheduledBlocks)
  /\ pc' = "sort"
  /\ UNCHANGED <<inputs, invocation, pinnedTasks, sortedTasks, pi, ti, chunks,
                 ci, searchDate, allChunksScheduled, scheduledBlocks,
                 overloadedTasks, scheduledTaskIds, tasksPerGoalPerDay>>

\* Lines 498-499.
SortAndReturn ==
  /\ pc = "sort"
  /\ scheduledBlocks' = SortByStart(scheduledBlocks)
  /\ pc' = "done"
  /\ UNCHANGED <<inputs, invocation, pinnedTasks, sortedTasks, pi, ti, chunks,
                 ci, searchDate, allChunksScheduled, overloadedTasks, warnings,
                 scheduledTaskIds, tasksPerGoalPerDay>>

\* What generateSchedule returns.
Result ==
  [scheduledBlocks |-> scheduledBlocks,
   overloadedTasks |-> overloadedTasks,
   warnings |-> warnings]

\* The caller invokes generateSchedule a second time with the same arguments
\* (the dashboard recomputes the schedule whenever its tasks or events are set).
Reinvoke ==
  /\ pc = "done"
  /\ run = 1
  /\ run' = 2
  /\ firstResult' = Result
  /\ pc' = "begin"
  /\ pinnedTasks' = <<>>
  /\ sortedTasks' = <<>>
  /\ pi' = 0
  /\ ti' = 0
  /\ chunks' = <<>>
  /\ ci' = 0
  /\ searchDate' = None
  /\ allChunksScheduled' = TRUE
  /\ scheduledBlocks' = <<>>
  /\ overloadedTasks' = <<>>
  /\ warnings' = <<>>
  /\ scheduledTaskIds' = {}
  /\ tasksPerGoalPerDay' = {}
  /\ UNCHANGED inputs

Next ==
  \/ Begin
  \/ PinTask
  \/ DependencySkip
  \/ SplitTask
  \/ ChunkExhausted
  \/ SkipSunday
  \/ VelocitySkip
  \/ PlaceRegular
  \/ PlaceFamily
  \/ AdvanceDay
  \/ MarkScheduled
  \/ MarkOverloaded
  \/ AntiCrammingAudit
  \/ SortAndReturn

Spec == Init /\ [][Next]_vars

SpecHorizon == InitHorizon /\ [][Next]_vars

\* Line 505: isTaskScheduled.
IsTaskScheduled(blocks, taskId) ==
  \E i \in 1..Len(blocks) : blocks[i].taskId = taskId

\* The blocks of a result as occupations of the calendar.
RECURSIVE BlocksAsEvents(_)
BlocksAsEvents(blocks) ==
  IF blocks = <<>> THEN <<>>
  ELSE <<Event(Head(blocks).taskId, Head(blocks).start, Head(blocks).end)>>
       \o BlocksAsEvents(Tail(blocks))

\* generateSchedule is invoked again at the same instant with the same
\* configuration, the blocks of the first result added to the occupations
\* and the tasks that have a block taken out.
Rerun ==
  /\ pc = "done"
  /\ run = 1
  /\ run' = 2
  /\ firstResult' = Result
  /\ fixedEvents' = fixedEvents \o BlocksAsEvents(scheduledBlocks)
  /\ tasks' = SelectSeq(tasks, LAMBDA t : ~IsTaskScheduled(scheduledBlocks, t.id))
  /\ pc' = "begin"
  /\ pinnedTasks' = <<>>
  /\ sortedTasks' = <<>>
  /\ pi' = 0
  /\ ti' = 0
  /\ chunks' = <<>>
  /\ ci' = 0
  /\ searchDate' = None
  /\ allChunksScheduled' = TRUE
  /\ scheduledBlocks' = <<>>
  /\ overloadedTasks' = <<>>
  /\ warnings' = <<>>
  /\ scheduledTaskIds' = {}
  /\ tasksPerGoalPerDay' = {}
  /\ UNCHANGED <<now, dayEndHour>>

NextRerun == Next \/ Rerun

SpecRerun == InitHorizon /\ [][NextRerun]_vars

NextDet == Next \/ Reinvoke

SpecDet == InitDet /\ [][NextDet]_vars

-----------------------------------------------------------------------------
(* splitTaskIntoChunks on its own, lines 144-211 *)

\* The tasks the chunker splits: every whole duration above 120 minutes, with
\* no deadline, a deadline at the end of today or in three days, a habit or not.
SplittableTasks(n) ==
  {Task("long", d, "core", "", due, "", FALSE, TRUE, {}, habit, None) :
     d \in 121..MaxSplitDuration,
     due \in {None, n + 1439, n + 3 * MinutesPerDay},
     habit \in {"", "h1"}}

InitChunker ==
  /\ now \in Nows
  /\ tasks \in {<<t>> : t \in SplittableTasks(now)}
  /\ fixedEvents = <<>>
  /\ dayEndHour = DayEndHour
  /\ run = 1
  /\ firstResult = <<>>
  /\ Idle

\* const chunks = splitTaskIntoChunks(task, now), and nothing else.
CallChunker ==
  /\ pc = "begin"
  /\ chunks' = SplitTaskIntoChunks(tasks[1], now)
  /\ pc' = "chunked"
  /\ UNCHANGED <<inputs, invocation, pinnedTasks, sortedTasks, pi, ti, ci,
                 searchDate, allChunksScheduled, scheduledBlocks,
                 overloadedTasks, warnings, scheduledTaskIds, tasksPerGoalPerDay>>

NextChunker == CallChunker

SpecChunker == InitChunker /\ [][NextChunker]_vars

-----------------------------------------------------------------------------
(* The task sort of line 341 on its own *)

\* The deadlines of the sorted tasks, in days from now: overdue by more than a
\* year, the end of today, in five days, in two years.
PrioritizerDeadlineDays == {-400, 1, 5, 730}

\* The floating tasks the sort is given: ids "a" and "b", half an hour or a
\* working day long, of every tier, without a deadline or with one of the
\* deadlines above.
PrioritizedTasks(n) ==
  {Task(id, d, tier, "", due, "", FALSE, FALSE, {}, "", None) :
     id \in {"a", "b"},
     d \in {30, 480},
     tier \in {"critical", "core", "backlog"},
     due \in {None} \cup {n + k * MinutesPerDay - 1 : k \in PrioritizerDeadlineDays}}

\* Two tasks with different ids, in either argument order.
InitPrioritizer ==
  /\ now \in Nows
  /\ tasks \in {p \in PrioritizedTasks(now) \X PrioritizedTasks(now) :
                  p[1].id # p[2].id}
  /\ fixedEvents = <<>>
  /\ dayEndHour = DayEndHour
  /\ run = 1
  /\ firstResult = <<>>
  /\ Idle

\* const sortedTasks = [...floatingTasks].sort(...), and nothing after it.
NextPrioritizer == Begin

SpecPrioritizer == InitPrioritizer /\ [][NextPrioritizer]_vars

-----------------------------------------------------------------------------
(* Reading a result *)

BlockIndexes == 1..Len(scheduledBlocks)
TaskIndexes == 1..Len(tasks)
EventIndexes == 1..Len(fixedEvents)

\* The block belongs to a task without scheduledStart: the floating pass placed it.
IsFloatingBlock(b) ==
  \E i \in TaskIndexes : tasks[i].id = b.taskId /\ tasks[i].scheduledStart = None

BlocksOf(taskId) == SelectSeq(scheduledBlocks, LAMBDA b : b.taskId = taskId)

Intersects(a, b) == a.start < b.end /\ b.start < a.end

IsSplitItem(t) == t.canSplit /\ t.durationMinutes > 120

IsOverloaded(taskId) ==
  \E i \in 1..Len(overloadedTasks) : overloadedTasks[i] = taskId

HasWarning(type, taskId) ==
  \E i \in 1..Len(warnings) : warnings[i] = Warning(type, taskId)

StartsInFamilyTime(b) == GetDecimalHour(b.start) >= FamilyTimeStartMinutes

-----------------------------------------------------------------------------
(* The claims *)

\* C1: no block placed by the floating pass intersects the interval of any
\* occupation.
C1_NoOccupationOverlap ==
  \A i \in BlockIndexes : \A e \in EventIndexes :
    IsFloatingBlock(scheduledBlocks[i])
      => ~Intersects(scheduledBlocks[i], fixedEvents[e])

\* C2 as stated: in a result, the blocks of every split item that is not in
\* overloaded sum to the item's duration.
C2_SplitSumUnlessOverloaded ==
  pc = "done" =>
    \A i \in TaskIndexes :
      IsSplitItem(tasks[i]) /\ ~IsOverloaded(tasks[i].id)
        => SumDurations(BlocksOf(tasks[i].id)) = tasks[i].durationMinutes

\* C2 as amended: in a result, the blocks of every split item that has a block
\* and is not in overloaded sum to the item's duration (an item the dependency
\* gate skipped is not in overloaded and has no block).
C2_SplitSumWhenPlaced ==
  pc = "done" =>
    \A i \in TaskIndexes :
      /\ IsSplitItem(tasks[i])
      /\ ~IsOverloaded(tasks[i].id)
      /\ Len(BlocksOf(tasks[i].id)) > 0
      => SumDurations(BlocksOf(tasks[i].id)) = tasks[i].durationMinutes

\* A result in which a split item was placed in several blocks.
C2_Witness ==
  /\ pc = "done"
  /\ \E i \in TaskIndexes :
       /\ IsSplitItem(tasks[i])
       /\ ~IsOverloaded(tasks[i].id)
       /\ Len(BlocksOf(tasks[i].id)) > 1

\* C3: in a result, every overloaded item has an Overloaded warning and no
\* block at all.
C3_OverloadAllOrNothing ==
  pc = "done" =>
    \A i \in TaskIndexes :
      IsOverloaded(tasks[i].id)
        => /\ HasWarning("overloaded", tasks[i].id)
           /\ Len(BlocksOf(tasks[i].id)) = 0

\* C4: in a result, if B depends on A then B has no block, or A has blocks
\* and every block of A starts before every block of B.
C4_DependencyOrder ==
  pc = "done" =>
    \A i \in TaskIndexes : \A depId \in tasks[i].dependsOn :
      \/ Len(BlocksOf(tasks[i].id)) = 0
      \/ /\ Len(BlocksOf(depId)) > 0
         /\ \A a \in BlockIndexes : \A b \in BlockIndexes :
              /\ scheduledBlocks[a].taskId = depId
              /\ scheduledBlocks[b].taskId = tasks[i].id
              => scheduledBlocks[a].start < scheduledBlocks[b].start

\* C5: the second invocation with the same now, occupations and items returns
\* what the first returned: the same blocks with the same identifiers in the
\* same order, the same overloaded list and the same warnings.
C5_Deterministic ==
  (run = 2 /\ pc = "done") => Result = firstResult

\* What C6 asks of the item of a block that starts in Family Time: it is an
\* assignment, its deadline is within 24 h of the day-search instant of the
\* block's date (later than the start of that date and before the end of the
\* following one), and it has a FamilyTimeCompromised warning.
FamilyTimeJustified(b) ==
  \E i \in TaskIndexes :
    /\ tasks[i].id = b.taskId
    /\ tasks[i].isAssignment
    /\ tasks[i].deadline # None
    /\ tasks[i].deadline > StartOfDay(b.start)
    /\ tasks[i].deadline < StartOfDay(b.start) + 2 * MinutesPerDay
    /\ HasWarning("family_time_compromised", b.taskId)

\* C6 as stated: every block that starts at or after family_time_start_hour
\* belongs to an assignment with a deadline within 24 h and a warning.
C6_FamilyTimeAllBlocks ==
  \A i \in BlockIndexes :
    StartsInFamilyTime(scheduledBlocks[i])
      => FamilyTimeJustified(scheduledBlocks[i])

\* C6 as amended: every block placed by the floating pass that starts at or
\* after family_time_start_hour belongs to an assignment with a deadline
\* within 24 h and a warning (a pinned block is placed where the user put it).
C6_FamilyTimeFloatingBlocks ==
  \A i \in BlockIndexes :
    /\ IsFloatingBlock(scheduledBlocks[i])
    /\ StartsInFamilyTime(scheduledBlocks[i])
    => FamilyTimeJustified(scheduledBlocks[i])

\* The override has placed a block of a floating item in Family Time.
C6_Witness ==
  \E i \in BlockIndexes :
    /\ IsFloatingBlock(scheduledBlocks[i])
    /\ StartsInFamilyTime(scheduledBlocks[i])

\* Day 0 of the epoch is a Sunday, and so is every seventh day after it.
OnASunday(t) == (t \div MinutesPerDay) % 7 = 0

\* C7: no block placed by the floating pass starts on a Sunday.
C7_NoSundayFloatingBlock ==
  \A i \in BlockIndexes :
    IsFloatingBlock(scheduledBlocks[i]) => ~OnASunday(scheduledBlocks[i].start)

\* A chunk whose preferred day is a Sunday has been placed, and an occupation
\* runs into a Sunday.
C7_Witness ==
  /\ pc \in {"search", "finish"}
  /\ \E k \in 1..Len(chunks) : \E i \in BlockIndexes :
       /\ OnASunday(chunks[k].preferredDay)
       /\ scheduledBlocks[i].taskId = sortedTasks[ti].id
       /\ scheduledBlocks[i].chunkIndex = chunks[k].chunkIndex
  /\ \E e \in EventIndexes :
       OnASunday(fixedEvents[e].start) \/ OnASunday(fixedEvents[e].end)

\* C8: every block placed by the floating pass on a Friday ends at or before
\* 17:00.
C8_FridayCutoff ==
  \A i \in BlockIndexes :
    IsFloatingBlock(scheduledBlocks[i]) /\ IsFriday(scheduledBlocks[i].start)
      => scheduledBlocks[i].end
           <= SetTimeOnDate(scheduledBlocks[i].start, FridayEndHour)

\* C9: every block placed by the floating pass starts at or after
\* day_start_hour and ends at or before day_end_hour of its date.
C9_WorkdayContainment ==
  \A i \in BlockIndexes :
    IsFloatingBlock(scheduledBlocks[i])
      => /\ scheduledBlocks[i].start
              >= SetTimeOnDate(scheduledBlocks[i].start, DayStartHour)
         /\ scheduledBlocks[i].end
              <= SetTimeOnDate(scheduledBlocks[i].start, DayEndHour)

SameDate(a, b) == StartOfDay(a.start) = StartOfDay(b.start)

IsPinnedBlock(b) ==
  \E i \in TaskIndexes : tasks[i].id = b.taskId /\ tasks[i].scheduledStart # None

\* C11: while the pinned pass runs no floating block exists, and no block
\* placed by the floating pass intersects a pinned block.
C11_FloatingAvoidsPinned ==
  /\ pc = "pinned" => \A i \in BlockIndexes : IsPinnedBlock(scheduledBlocks[i])
  /\ \A i \in BlockIndexes : \A j \in BlockIndexes :
       /\ IsFloatingBlock(scheduledBlocks[i])
       /\ IsPinnedBlock(scheduledBlocks[j])
       => ~Intersects(scheduledBlocks[i], scheduledBlocks[j])

\* The blocks that start on the date and belong to items carrying the goal.
BlocksOfGoalOn(date, goalId) ==
  {i \in BlockIndexes :
     /\ StartOfDay(scheduledBlocks[i].start) = date
     /\ \E t \in TaskIndexes :
          tasks[t].id = scheduledBlocks[i].taskId /\ tasks[t].goalId = goalId}

\* C12: in a result, for every date and every goal identifier, at most
\* max_items_per_goal_per_day blocks, pinned and floating alike, start on
\* that date and belong to items carrying that goal.
C12_VelocityCapAllBlocks ==
  pc = "done" =>
    \A i \in BlockIndexes : \A t \in TaskIndexes :
      tasks[t].goalId # ""
        => Cardinality(BlocksOfGoalOn(StartOfDay(scheduledBlocks[i].start),
                                      tasks[t].goalId))
             <= MaxTasksPerGoalPerDay

FloatingBlocksOfGoalOn(date, goalId) ==
  {i \in BlocksOfGoalOn(date, goalId) : IsFloatingBlock(scheduledBlocks[i])}

\* C12 as amended: for every date and every goal identifier, at most
\* max_items_per_goal_per_day blocks placed by the floating pass start on that
\* date and belong to items carrying that goal (the pinned pass neither reads
\* nor updates the count).
C12_VelocityCapFloatingBlocks ==
  \A i \in BlockIndexes : \A t \in TaskIndexes :
    tasks[t].goalId # ""
      => Cardinality(FloatingBlocksOfGoalOn(StartOfDay(scheduledBlocks[i].start),
                                            tasks[t].goalId))
           <= MaxTasksPerGoalPerDay

\* A result in which a date holds max_items_per_goal_per_day floating blocks
\* of a goal and an item of that goal was turned away.
C12_Witness ==
  /\ pc = "done"
  /\ \E i \in BlockIndexes : \E t \in TaskIndexes :
       /\ tasks[t].goalId # ""
       /\ IsOverloaded(tasks[t].id)
       /\ Cardinality(FloatingBlocksOfGoalOn(StartOfDay(scheduledBlocks[i].start),
                                             tasks[t].goalId))
            = MaxTasksPerGoalPerDay

\* C13: every chunk the chunker emits for a split item lasts between 30 and
\* 120 minutes.
C13_ChunkDurationBounds ==
  pc = "chunked" =>
    \A k \in 1..Len(chunks) :
      IsSplitItem(tasks[1])
        => /\ chunks[k].durationMinutes >= 30
           /\ chunks[k].durationMinutes <= 120

IsUnsplitFloatingItem(t) == t.scheduledStart = None /\ ~IsSplitItem(t)

\* The item has exactly one block, of its full duration, with chunk index 0
\* of 1.
HasOneFullBlock(t) ==
  LET blocks == BlocksOf(t.id) IN
  /\ Len(blocks) = 1
  /\ blocks[1].durationMinutes = t.durationMinutes
  /\ blocks[1].end = blocks[1].start + t.durationMinutes
  /\ blocks[1].chunkIndex = 0
  /\ blocks[1].totalChunks = 1

\* C14 as stated: in a result, every floating item that is not split and not
\* overloaded has exactly one block, of its full duration, with chunk index 0
\* and total chunks 1.
C14_UnsplitOneBlock ==
  pc = "done" =>
    \A i \in TaskIndexes :
      IsUnsplitFloatingItem(tasks[i]) /\ ~IsOverloaded(tasks[i].id)
        => HasOneFullBlock(tasks[i])

\* C14 as amended: in a result, every floating item that is not split and not
\* overloaded either has exactly one block, of its full duration, with chunk
\* index 0 and total chunks 1, or it depends on other items, was passed over
\* by the dependency gate and has no block.
C14_UnsplitOneBlockUnlessSkipped ==
  pc = "done" =>
    \A i \in TaskIndexes :
      IsUnsplitFloatingItem(tasks[i]) /\ ~IsOverloaded(tasks[i].id)
        => \/ HasOneFullBlock(tasks[i])
           \/ /\ tasks[i].dependsOn # {}
              /\ tasks[i].id \notin scheduledTaskIds
              /\ Len(BlocksOf(tasks[i].id)) = 0

\* A result in which an item longer than 120 minutes that may not be split
\* was placed.
C14_Witness ==
  /\ pc = "done"
  /\ \E i \in TaskIndexes :
       /\ IsUnsplitFloatingItem(tasks[i])
       /\ tasks[i].durationMinutes > 120
       /\ ~IsOverloaded(tasks[i].id)
       /\ Len(BlocksOf(tasks[i].id)) = 1

\* C15: in a result, every item with a pinned start has exactly one block,
\* which starts at the pinned start and ends duration_minutes later, and the
\* item is not in overloaded.
C15_PinningRespected ==
  pc = "done" =>
    \A i \in TaskIndexes :
      tasks[i].scheduledStart # None
        => /\ Len(BlocksOf(tasks[i].id)) = 1
           /\ BlocksOf(tasks[i].id)[1].start = tasks[i].scheduledStart
           /\ BlocksOf(tasks[i].id)[1].end
                = tasks[i].scheduledStart + tasks[i].durationMinutes
           /\ ~IsOverloaded(tasks[i].id)

\* A result with a pinned block on a Sunday and a pinned block that
\* intersects an occupation.
C15_Witness ==
  /\ pc = "done"
  /\ \E i \in BlockIndexes :
       IsPinnedBlock(scheduledBlocks[i]) /\ OnASunday(scheduledBlocks[i].start)
  /\ \E i \in BlockIndexes : \E e \in EventIndexes :
       /\ IsPinnedBlock(scheduledBlocks[i])
       /\ Intersects(scheduledBlocks[i], fixedEvents[e])

\* The minutes of the item's blocks that start on the local day of its deadline.
MinutesOnDeadlineDay(t) ==
  SumDurations(SelectSeq(BlocksOf(t.id),
                         LAMBDA b : b.start \div MinutesPerDay
                                      = t.deadline \div MinutesPerDay))

MostlyOnDeadlineDay(t) ==
  /\ t.deadline # None
  /\ 2 * MinutesOnDeadlineDay(t) > SumDurations(BlocksOf(t.id))

\* C16 as stated: in a result, every split item with a deadline that has more
\* than half of its placed minutes on the day of the deadline has an
\* AntiCrammingViolated warning.
C16_CrammingSignalled ==
  pc = "done" =>
    \A i \in TaskIndexes :
      IsSplitItem(tasks[i]) /\ MostlyOnDeadlineDay(tasks[i])
        => HasWarning("anti_cramming_violated", tasks[i].id)

\* C16 as amended: in a result, every floating split item with a deadline
\* that has more than half of its placed minutes on the day of the deadline
\* has an AntiCrammingViolated warning (the audit does not look at pinned
\* items).
C16_FloatingCrammingSignalled ==
  pc = "done" =>
    \A i \in TaskIndexes :
      /\ IsSplitItem(tasks[i])
      /\ tasks[i].scheduledStart = None
      /\ MostlyOnDeadlineDay(tasks[i])
      => HasWarning("anti_cramming_violated", tasks[i].id)

\* A result in which a floating split item has several blocks, most of its
\* minutes on the day of its deadline.
C16_Witness ==
  /\ pc = "done"
  /\ \E i \in TaskIndexes :
       /\ IsSplitItem(tasks[i])
       /\ tasks[i].scheduledStart = None
       /\ Len(BlocksOf(tasks[i].id)) > 1
       /\ MostlyOnDeadlineDay(tasks[i])

\* The block's local date is more than planning_horizon_days past the date
\* of now.
BeyondHorizon(b) ==
  (b.start \div MinutesPerDay) - (now \div MinutesPerDay) > PlanningHorizonDays

\* C17: every block, pinned or floating, is virtual if and only if its local
\* date is more than planning_horizon_days past now.
C17_VirtualIffBeyondHorizon ==
  \A i \in BlockIndexes :
    scheduledBlocks[i].isVirtual <=> BeyondHorizon(scheduledBlocks[i])

\* C18: the second run, given the blocks of the first result as occupations
\* and only the items that have no block, places no block.
C18_RerunPlacesNothing ==
  run = 2 => scheduledBlocks = <<>>

\* C19 as stated: the start and the end of every block placed by the
\* floating pass lie on the same local date.
C19_StartAndEndOnSameDate ==
  \A i \in BlockIndexes :
    IsFloatingBlock(scheduledBlocks[i])
      => scheduledBlocks[i].start \div MinutesPerDay
           = scheduledBlocks[i].end \div MinutesPerDay

\* C19 as amended: every block placed by the floating pass ends at or before
\* the midnight that follows its start (with day_end_hour = 24 it may end at
\* that midnight, the first instant of the next date).
C19_EndsByMidnight ==
  \A i \in BlockIndexes :
    IsFloatingBlock(scheduledBlocks[i])
      => scheduledBlocks[i].end
           <= ((scheduledBlocks[i].start \div MinutesPerDay) + 1) * MinutesPerDay

\* With day_end_hour = 24, a floating block ends at the midnight that follows
\* its start.
C19_Witness ==
  /\ dayEndHour = 24
  /\ \E i \in BlockIndexes :
       /\ IsFloatingBlock(scheduledBlocks[i])
       /\ scheduledBlocks[i].end % MinutesPerDay = 0

\* C20: every block of a floating item that has a deadline ends at or before
\* the deadline.
C20_BlocksEndByDeadline ==
  \A i \in BlockIndexes : \A t \in TaskIndexes :
    /\ tasks[t].id = scheduledBlocks[i].taskId
    /\ tasks[t].scheduledStart = None
    /\ tasks[t].deadline # None
    => scheduledBlocks[i].end <= tasks[t].deadline

\* The day of min(item.deadline, now + planning_horizon_days).
SearchBoundDay(t) ==
  LET horizon == now + PlanningHorizonDays * MinutesPerDay
      bound == IF t.deadline # None /\ t.deadline < horizon THEN t.deadline
               ELSE horizon
  IN bound \div MinutesPerDay

\* C21: no block of a floating item starts on a day later than the day of
\* min(item.deadline, now + planning_horizon_days).
C21_SearchBoundedByHorizon ==
  \A i \in BlockIndexes : \A t \in TaskIndexes :
    /\ tasks[t].id = scheduledBlocks[i].taskId
    /\ tasks[t].scheduledStart = None
    => scheduledBlocks[i].start \div MinutesPerDay <= SearchBoundDay(tasks[t])

\* C21 as amended: no block of a floating item starts on a day later than the
\* day of the item's deadline or, for an item without a deadline, the day of
\* now + planning_horizon_days (a deadline beyond the horizon is not cut down
\* to the horizon).
C21_SearchBoundedByDeadlineOrHorizon ==
  \A i \in BlockIndexes : \A t \in TaskIndexes :
    /\ tasks[t].id = scheduledBlocks[i].taskId
    /\ tasks[t].scheduledStart = None
    => scheduledBlocks[i].start \div MinutesPerDay
         <= (IF tasks[t].deadline # None THEN tasks[t].deadline
             ELSE now + PlanningHorizonDays * MinutesPerDay) \div MinutesPerDay

\* A floating item whose deadline lies beyond the horizon has a block beyond
\* the horizon.
C21_Witness ==
  \E i \in BlockIndexes : \E t \in TaskIndexes :
    /\ tasks[t].id = scheduledBlocks[i].taskId
    /\ tasks[t].scheduledStart = None
    /\ tasks[t].deadline > now + PlanningHorizonDays * MinutesPerDay
    /\ scheduledBlocks[i].start > now + PlanningHorizonDays * MinutesPerDay

\* C22: every floating block of an item without a FamilyTimeCompromised
\* warning ends at or before family_time_start_hour of its date, so no block
\* placed without that warning occupies any part of Family Time.
C22_FamilyTimeWindowProtected ==
  \A i \in BlockIndexes :
    /\ IsFloatingBlock(scheduledBlocks[i])
    /\ ~HasWarning("family_time_compromised", scheduledBlocks[i].taskId)
    => scheduledBlocks[i].end
         <= StartOfDay(scheduledBlocks[i].start) + FamilyTimeStartMinutes

\* The chunks preferred on the local day of the deadline.
ChunksOnDeadlineDay(t) ==
  SelectSeq(chunks, LAMBDA c : c.preferredDay \div MinutesPerDay
                                 = t.deadline \div MinutesPerDay)

\* C23: for every split item with a deadline and every planning start, the
\* total duration of the chunks whose preferred day is the deadline's day is
\* at most floor(duration_minutes / 2).
C23_ChunkerRespectsCap ==
  pc = "chunked" /\ IsSplitItem(tasks[1]) /\ tasks[1].deadline # None
    => 2 * SumDurations(ChunksOnDeadlineDay(tasks[1])) <= tasks[1].durationMinutes

\* The position of an identifier in lexicographic order.
IdRank(id) == CASE id = "a" -> 1 [] id = "b" -> 2 [] OTHER -> 3

\* C24: of two floating items with equal calculate_task_score, the one with
\* the lexicographically smaller identifier is processed first, whatever the
\* order the items were passed in.
C24_TiesBrokenByIdentifier ==
  \A i, j \in 1..Len(sortedTasks) :
    /\ i < j
    /\ CalculateTaskScore(sortedTasks[i], now) = CalculateTaskScore(sortedTasks[j], now)
    => IdRank(sortedTasks[i].id) < IdRank(sortedTasks[j].id)

TierRank(t) ==
  CASE t.priority_tier = "critical" -> 2
    [] t.priority_tier = "backlog" -> 0
    [] OTHER -> 1

\* C25: the processing order never puts an item of a lower tier before an item
\* of a higher tier, for all deadlines and durations.
C25_TierDominatesOrder ==
  \A i, j \in 1..Len(sortedTasks) :
    i < j => TierRank(sortedTasks[i]) >= TierRank(sortedTasks[j])

\* The slot score as stated: the tier bonus counts an absent tier as Core and
\* the fit bonus compares the interval with the chunk.
SlotScoreAsStated(slot, task, chunk) ==
  LET category == IF task.category # "" THEN task.category ELSE "Personal"
      tier == IF task.priority_tier = "" THEN "core" ELSE task.priority_tier
  IN 100
     + (IF category \in {"Business", "Work", "Career"} /\ IsDeepWorkSlot(slot)
        THEN 50 ELSE 0)
     + (CASE tier = "critical" -> 40 [] tier = "core" -> 15 [] OTHER -> 0)
     + (IF slot.durationMinutes >= chunk.durationMinutes THEN 25 ELSE 0)

\* C26: for every interval the regular path scores for the chunk being placed,
\* the score is 100, plus 50 for a Business, Work or Career item in a deep-work
\* interval, plus 40 for tier Critical or 15 for tier Core (an absent tier
\* counting as Core), plus 25 iff the interval is at least as long as the
\* chunk.
C26_SlotScoreAsStated ==
  DayIsSearched =>
    LET slots == RegularSlots(searchDate, fixedEvents, scheduledBlocks) IN
    \A k \in 1..Len(slots) :
      ScoreSlotForTask(slots[k], sortedTasks[ti])
        = SlotScoreAsStated(slots[k], sortedTasks[ti], chunks[ci])

\* The floating item at position k of the priority order has been dealt with.
Passed(k) == k < ti \/ pc \in {"audit", "done"}

\* The placed set at the moment position k is reached, read from the result:
\* the pinned items, and the floating items before k that have a block and
\* are not overloaded.
PlacedWhenReached(k) ==
  {tasks[t].id : t \in {u \in TaskIndexes : tasks[u].scheduledStart # None}}
  \cup {sortedTasks[j].id :
          j \in {m \in 1..(k - 1) : /\ BlocksOf(sortedTasks[m].id) # <<>>
                                    /\ ~IsOverloaded(sortedTasks[m].id)}}

\* The item has no block, no warning and is not in overloaded.
SkippedEntirely(t) ==
  /\ BlocksOf(t.id) = <<>>
  /\ ~IsOverloaded(t.id)
  /\ \A i \in 1..Len(warnings) : warnings[i].taskId # t.id

\* C27: a floating item that has been dealt with is skipped entirely (no
\* block, no warning, not in overloaded) exactly when some id in its
\* depends_on was not in the placed set at the moment it was reached.
C27_DependencyGate ==
  \A k \in 1..Len(sortedTasks) :
    Passed(k) =>
      (SkippedEntirely(sortedTasks[k])
         <=> \E depId \in sortedTasks[k].dependsOn : depId \notin PlacedWhenReached(k))

\* In a result, an item is skipped entirely because the item it depends on,
\* dealt with before it, is overloaded.
C27_Witness ==
  /\ pc = "done"
  /\ \E k \in 1..Len(sortedTasks) : \E j \in 1..(k - 1) :
       /\ sortedTasks[j].id \in sortedTasks[k].dependsOn
       /\ IsOverloaded(sortedTasks[j].id)
       /\ SkippedEntirely(sortedTasks[k])

\* C28: an AntiCrammingViolated warning is only emitted for an item that was
\* split into more than one chunk, has a deadline and has more than half of
\* its placed minutes on the deadline day, and for no item more than once.
C28_NoFalseCrammingAlarm ==
  \A w \in 1..Len(warnings) :
    warnings[w].type = "anti_cramming_violated" =>
      /\ \E t \in TaskIndexes :
           /\ tasks[t].id = warnings[w].taskId
           /\ IsSplitItem(tasks[t])
           /\ Len(BlocksOf(tasks[t].id)) > 1
           /\ MostlyOnDeadlineDay(tasks[t])
      /\ \A v \in 1..Len(warnings) : warnings[v] = warnings[w] => v = w

\* C29: every block of a floating item starts at or after now.
C29_NeverPlansInThePast ==
  \A i \in BlockIndexes :
    IsFloatingBlock(scheduledBlocks[i]) => scheduledBlocks[i].start >= now

\* C30: no two blocks of floating items overlap each other, whatever the
\* occupations and the pinned items.
C30_FloatingBlocksNeverOverlap ==
  \A i, j \in BlockIndexes :
    /\ i < j
    /\ IsFloatingBlock(scheduledBlocks[i])
    /\ IsFloatingBlock(scheduledBlocks[j])
    => \/ scheduledBlocks[i].end <= scheduledBlocks[j].start
       \/ scheduledBlocks[j].end <= scheduledBlocks[i].start

\* Two blocks of floating items lie on a date on which two occupations
\* intersect each other.
C30_Witness ==
  \E i, j \in BlockIndexes : \E e, f \in EventIndexes :
    /\ i < j
    /\ IsFloatingBlock(scheduledBlocks[i])
    /\ IsFloatingBlock(scheduledBlocks[j])
    /\ SameDate(scheduledBlocks[i], scheduledBlocks[j])
    /\ e < f
    /\ Intersects(fixedEvents[e], fixedEvents[f])
    /\ SameDate(fixedEvents[e], scheduledBlocks[i])

====
